---- MODULE Spec2Model ----
(***************************************************************************)
(* Model of lishgreek.py, a Greeklish -> Greek transliterator.             *)
(*                                                                         *)
(* A Python str is a sequence of characters; a character is a TLA+ string  *)
(* naming it.  ASCII characters name themselves ("a", "K", "3", " ").      *)
(* Greek and accented Latin characters carry ASCII names: "alpha" is the   *)
(* Greek small alpha, "alpha_acc" the small alpha with tonos, "iota_dia"   *)
(* the small iota with dialytika, "sigma_fin" the final sigma, "ALPHA" the *)
(* capital alpha, "a_acute" / "a_grave" the accented Latin small a and     *)
(* "A_ACUTE" its capital.  "EPSILON" is the Greek capital epsilon, which   *)
(* is a different character from the Latin capital "E".                    *)
(* A Python list of str is a sequence of such sequences.                   *)
(***************************************************************************)
EXTENDS Integers, Sequences, FiniteSets, TLC

(***************************************************************************)
(* The module-level strings of the program, character by character         *)
(* (the spaces are those of the source literals).                          *)
(***************************************************************************)
\* src/lishgreek.py:45
greek_accented ==
    <<"alpha_acc", " ", "epsilon_acc", " ", "eta_acc", " ", "iota_acc", " ",
      "iota_dia_acc", " ", "omicron_acc", " ", "upsilon_acc", " ", "upsilon_dia_acc", " ",
      "omega_acc">>

\* src/lishgreek.py:46
greek_unaccented ==
    <<"alpha", " ", "epsilon", " ", "eta", " ", "iota", " ", "iota_dia", " ", "omicron",
      " ", "upsilon", " ", "upsilon_dia", " ", "omega">>

\* src/lishgreek.py:48
lat_accented ==
    <<"a_grave", " ", "e_grave", " ", "i_grave", " ", "o_grave", " ", "u_grave", " ",
      "w_grave", " ", "a_acute", " ", "e_acute", " ", "i_acute", " ", "o_acute", " ",
      "u_acute", " ", "w_acute">>

\* src/lishgreek.py:49
lat_unaccented ==
    <<"a", " ", "e", " ", "i", " ", "o", " ", "u", " ", "w", " ", "a", " ", "e", " ", "i",
      " ", "o", " ", "u", " ", "w">>

\* src/lishgreek.py:117
greek_digraph ==
    <<"alpha", "beta", " ", "alpha", "phi", " ", "alpha", "upsilon", " ", "alpha", "iota",
      " ", "gamma", "gamma", " ", "gamma", "kappa", " ", "epsilon", "beta", " ", "epsilon",
      "phi", " ", "epsilon", "upsilon", " ", "epsilon", "iota", " ", "mu", "pi", " ", "mu",
      "beta", " ", "nu", "delta", " ", "nu", "tau", " ", "omicron", "iota", " ", "omicron",
      "upsilon", " ", "gamma", "chi", " ">>

\* src/lishgreek.py:118
g_uglish_digraph ==
    <<"A", " ", " ", "A", " ", " ", "A", " ", " ", "e", " ", " ", "G", " ", " ", "G", " ",
      " ", "E", " ", " ", "EPSILON", " ", " ", "E", " ", " ", "i", " ", " ", "b", " ", " ",
      "V", " ", " ", "d", " ", " ", "d", " ", " ", "i", " ", " ", "u", " ", " ", "H", " ",
      " ">>

\* src/lishgreek.py:120
greek_monograph ==
    <<"alpha", " ", "beta", " ", "gamma", " ", "delta", " ", "epsilon", " ", "zeta", " ",
      "eta", " ", "theta", " ", "iota", " ", "iota_dia", " ", "kappa", " ", "lambda", " ",
      "mu", " ", "nu", " ", "xi", " ", "omicron", " ", "pi", " ", "rho", " ", "sigma", " ",
      "sigma_fin", " ", "tau", " ", "upsilon", " ", "upsilon_dia", " ", "phi", " ", "chi",
      " ", "psi", " ", "omega", " ">>

\* src/lishgreek.py:121
g_uglish_monograph ==
    <<"a", " ", "v", " ", "g", " ", "d", " ", "e", " ", "z", " ", "i", " ", "8", " ", "i",
      " ", "i", " ", "k", " ", "l", " ", "m", " ", "n", " ", "3", " ", "o", " ", "p", " ",
      "r", " ", "s", " ", "s", " ", "t", " ", "i", " ", "i", " ", "f", " ", "x", " ", "4",
      " ", "o", " ">>

\* src/lishgreek.py:126
lish_trigraph ==
    <<"n", "c", "h", " ">>

\* src/lishgreek.py:127
l_uglish_trigraph ==
    <<"H", " ", " ", " ">>

\* src/lishgreek.py:129
lish_digraph ==
    <<"a", "i", " ", "a", "u", " ", "a", "f", " ", "a", "v", " ", "a", "y", " ", "c", "h",
      " ", "e", "i", " ", "e", "u", " ", "e", "f", " ", "e", "v", " ", "e", "y", " ", "g",
      "g", " ", "g", "k", " ", "k", "s", " ", "n", "g", " ", "n", "k", " ", "m", "p", " ",
      "m", "b", " ", "m", "v", " ", "n", "t", " ", "n", "d", " ", "o", "i", " ", "o", "u",
      " ", "p", "s", " ", "t", "h", " ">>

\* src/lishgreek.py:130
l_uglish_digraph ==
    <<"e", " ", " ", "A", " ", " ", "A", " ", " ", "A", " ", " ", "A", " ", " ", "x", " ",
      " ", "i", " ", " ", "E", " ", " ", "E", " ", " ", "E", " ", " ", "E", " ", " ", "G",
      " ", " ", "G", " ", " ", "3", " ", " ", "G", " ", " ", "G", " ", " ", "b", " ", " ",
      "b", "V", " ", "V", " ", " ", "d", " ", " ", "d", " ", " ", "i", " ", " ", "u", " ",
      " ", "4", " ", " ", "8", " ", " ">>

\* src/lishgreek.py:132
lish_monograph ==
    <<"a", " ", "b", " ", " ", "c", " ", "d", " ", "e", " ", "f", " ", "g", " ", "h", " ",
      " ", "i", " ", "j", " ", "k", " ", "l", " ", "m", " ", "n", " ", "o", " ", "p", " ",
      "q", " ", "r", " ", "s", " ", "t", " ", "u", " ", "v", " ", "w", " ", "x", " ", " ",
      "y", " ", "z", " ", "3", " ", "8", " ", "9", " ", "4", " ">>

\* src/lishgreek.py:133
l_uglish_monograph ==
    <<"a", " ", "b", "v", " ", "s", " ", "d", " ", "e", " ", "f", " ", "g", " ", "x", "i",
      " ", "i", " ", "3", " ", "k", " ", "l", " ", "m", " ", "n", " ", "o", " ", "p", " ",
      "q", " ", "r", " ", "s", " ", "t", " ", "i", " ", "v", " ", "o", " ", "3", "x", " ",
      "i", " ", "z", " ", "3", " ", "8", " ", "8", " ", "4", " ">>

\* src/lishgreek.py:135
tiebreaker_tokens_lish ==
    <<"y", " ", "u", " ", "h", " ", "a", "i", " ", "a", "u", " ", "a", "y", " ", "e", "i",
      " ", "e", "u", " ", "e", "y", " ", "o", "i", " ", "o", "u", " ", "m", "v">>

\* src/lishgreek.py:136
tiebreaker_tokens_greek ==
    <<"upsilon", " ", "upsilon", " ", "eta", " ", "alpha", "iota", " ", "alpha", "upsilon",
      " ", "alpha", "upsilon", " ", "epsilon", "iota", " ", "epsilon", "upsilon", " ",
      "epsilon", "upsilon", " ", "omicron", "iota", " ", "omicron", "upsilon", " ", "mu",
      "beta">>

\* A sequence with its elements computed once (a function written
\* [i \in 1..n |-> e] computes e at every application).
list(seq) == SubSeq(seq, 1, Len(seq))

(***************************************************************************)
(* str.lower(), str.upper() and str.isupper() on the characters of the     *)
(* model: the Latin and Greek letters, plain and accented.                 *)
(***************************************************************************)
CasePairs ==
    { <<"A", "a">>, <<"B", "b">>, <<"C", "c">>, <<"D", "d">>, <<"E", "e">>, <<"F", "f">>,
      <<"G", "g">>, <<"H", "h">>, <<"I", "i">>, <<"J", "j">>, <<"K", "k">>, <<"L", "l">>,
      <<"M", "m">>, <<"N", "n">>, <<"O", "o">>, <<"P", "p">>, <<"Q", "q">>, <<"R", "r">>,
      <<"S", "s">>, <<"T", "t">>, <<"U", "u">>, <<"V", "v">>, <<"W", "w">>, <<"X", "x">>,
      <<"Y", "y">>, <<"Z", "z">>,
      <<"A_GRAVE", "a_grave">>, <<"E_GRAVE", "e_grave">>, <<"I_GRAVE", "i_grave">>,
      <<"O_GRAVE", "o_grave">>, <<"U_GRAVE", "u_grave">>, <<"W_GRAVE", "w_grave">>,
      <<"A_ACUTE", "a_acute">>, <<"E_ACUTE", "e_acute">>, <<"I_ACUTE", "i_acute">>,
      <<"O_ACUTE", "o_acute">>, <<"U_ACUTE", "u_acute">>, <<"W_ACUTE", "w_acute">>,
      <<"ALPHA", "alpha">>, <<"BETA", "beta">>, <<"GAMMA", "gamma">>, <<"DELTA", "delta">>,
      <<"EPSILON", "epsilon">>, <<"ZETA", "zeta">>, <<"ETA", "eta">>, <<"THETA", "theta">>,
      <<"IOTA", "iota">>, <<"KAPPA", "kappa">>, <<"LAMBDA", "lambda">>, <<"MU", "mu">>,
      <<"NU", "nu">>, <<"XI", "xi">>, <<"OMICRON", "omicron">>, <<"PI", "pi">>,
      <<"RHO", "rho">>, <<"SIGMA", "sigma">>, <<"TAU", "tau">>, <<"UPSILON", "upsilon">>,
      <<"PHI", "phi">>, <<"CHI", "chi">>, <<"PSI", "psi">>, <<"OMEGA", "omega">>,
      <<"IOTA_DIA", "iota_dia">>, <<"UPSILON_DIA", "upsilon_dia">>,
      <<"ALPHA_ACC", "alpha_acc">>, <<"EPSILON_ACC", "epsilon_acc">>,
      <<"ETA_ACC", "eta_acc">>, <<"IOTA_ACC", "iota_acc">>,
      <<"OMICRON_ACC", "omicron_acc">>, <<"UPSILON_ACC", "upsilon_acc">>,
      <<"OMEGA_ACC", "omega_acc">> }

isupper(char) == \E p \in CasePairs : p[1] = char

\* Characters with a case: the paired letters, and the three small letters
\* whose capital is not a single paired character.
cased(char) ==
    \/ \E p \in CasePairs : p[1] = char \/ p[2] = char
    \/ char \in {"sigma_fin", "iota_dia_acc", "upsilon_dia_acc"}

\* The combining marks that str.upper() produces for the two small letters
\* with dialytika and tonos; they are ignored when a final sigma is looked for.
case_ignorable(char) == char \in {"comb_diaeresis", "comb_acute"}

lower_char(char) ==
    IF isupper(char) THEN (CHOOSE p \in CasePairs : p[1] = char)[2] ELSE char

\* The capital sigma lowers to the final sigma when a cased letter precedes it
\* and none follows it (case-ignorable characters skipped), else to the sigma.
final_sigma(string_, i) ==
    /\ \E j \in 1..(i - 1) :
          /\ cased(string_[j])
          /\ \A k \in (j + 1)..(i - 1) : case_ignorable(string_[k])
    /\ ~ \E j \in (i + 1)..Len(string_) :
          /\ cased(string_[j])
          /\ \A k \in (i + 1)..(j - 1) : case_ignorable(string_[k])

lower(string_) ==
    list([i \in 1..Len(string_) |->
             IF string_[i] = "SIGMA"
             THEN (IF final_sigma(string_, i) THEN "sigma_fin" ELSE "sigma")
             ELSE lower_char(string_[i])])

\* char.upper() of one character: a str, of three characters for the two
\* small letters with dialytika and tonos.
upper(char) ==
    IF char = "sigma_fin" THEN <<"SIGMA">>
    ELSE IF char = "iota_dia_acc" THEN <<"IOTA", "comb_diaeresis", "comb_acute">>
    ELSE IF char = "upsilon_dia_acc" THEN <<"UPSILON", "comb_diaeresis", "comb_acute">>
    ELSE IF \E p \in CasePairs : p[2] = char
         THEN << (CHOOSE p \in CasePairs : p[2] = char)[1] >>
    ELSE <<char>>

(***************************************************************************)
(* Python built-ins on str and list.                                       *)
(***************************************************************************)
\* The k-th smallest element of a set of integers.
kth(S, k) == CHOOSE i \in S : Cardinality({j \in S : j < i}) = k - 1

\* str.split(): the maximal runs of characters other than the space.
split(string_) ==
    LET starts == {i \in 1..Len(string_) :
                      string_[i] # " " /\ (i = 1 \/ string_[i - 1] = " ")}
        stop(i) == CHOOSE j \in i..Len(string_) :
                      /\ \A k \in i..j : string_[k] # " "
                      /\ (j = Len(string_) \/ string_[j + 1] = " ")
    IN  list([k \in 1..Cardinality(starts) |->
                 LET i == kth(starts, k) IN SubSeq(string_, i, stop(i))])

startswith(string_, prefix) ==
    /\ Len(prefix) <= Len(string_)
    /\ SubSeq(string_, 1, Len(prefix)) = prefix

\* `char in string` for a str of one character.
char_in(char, string_) == \E i \in 1..Len(string_) : string_[i] = char

\* str.count(sub): the non-overlapping occurrences, scanning from the left.
RECURSIVE count(_, _)
count(string_, sub) ==
    IF Len(string_) < Len(sub) THEN 0
    ELSE IF startswith(string_, sub)
         THEN 1 + count(SubSeq(string_, Len(sub) + 1, Len(string_)), sub)
         ELSE count(Tail(string_), sub)

abs(n) == IF n < 0 THEN -n ELSE n

(***************************************************************************)
(* A dict is the sequence of its <<key, value>> items in insertion order.   *)
(***************************************************************************)
dict_has(dict, key) == \E i \in 1..Len(dict) : dict[i][1] = key

dict_get(dict, key) == dict[CHOOSE i \in 1..Len(dict) : dict[i][1] = key][2]

dict_keys(dict) == list([i \in 1..Len(dict) |-> dict[i][1]])

\* output_dict[l] = replace_list[i] for every i in turn: a key stands where it
\* was first assigned and holds what was assigned to it last.
dict_of_lists(orig_list, replace_list) ==
    LET firsts == {i \in 1..Len(orig_list) :
                      \A j \in 1..(i - 1) : orig_list[j] # orig_list[i]}
        last(key) == CHOOSE i \in 1..Len(orig_list) :
                      /\ orig_list[i] = key
                      /\ \A j \in (i + 1)..Len(orig_list) : orig_list[j] # key
    IN  list([k \in 1..Cardinality(firsts) |->
                 LET key == orig_list[kth(firsts, k)]
                 IN  <<key, replace_list[last(key)]>>])

make_dictionary_from_strings(original_string, replace_string) ==
    dict_of_lists(split(original_string), split(replace_string))

greek_accent_dictionary == make_dictionary_from_strings(greek_accented, greek_unaccented)

g2u_dict ==
    make_dictionary_from_strings(greek_digraph \o greek_monograph,
                                 g_uglish_digraph \o g_uglish_monograph)

lat_accent_dictionary == make_dictionary_from_strings(lat_accented, lat_unaccented)

\* l2u_dict with the monographs declared before the digraphs and the trigraph.
l2u_dict_monographs_first ==
    make_dictionary_from_strings(lish_monograph \o lish_digraph \o lish_trigraph,
                                 l_uglish_monograph \o l_uglish_digraph \o l_uglish_trigraph)

l2u_dict ==
    make_dictionary_from_strings(lish_trigraph \o lish_digraph \o lish_monograph,
                                 l_uglish_trigraph \o l_uglish_digraph \o l_uglish_monograph)

\* zip() of the two token lists (of one length), each pair assigned in turn.
tiebreaker_dict ==
    dict_of_lists(split(tiebreaker_tokens_lish), split(tiebreaker_tokens_greek))

(***************************************************************************)
(* replace(string, replace_dict_) for a str: the loop of lines 95-113, one  *)
(* iteration at a time.                                                    *)
(***************************************************************************)
\* The for loop over the keys: the position of the first key, in the dict's
\* order, that s_in_ starts with; 0 when the loop ends without a break.
first_graph(s_in_, graph_list) ==
    IF \E i \in 1..Len(graph_list) : startswith(s_in_, graph_list[i])
    THEN CHOOSE i \in 1..Len(graph_list) :
            /\ startswith(s_in_, graph_list[i])
            /\ \A j \in 1..(i - 1) : ~ startswith(s_in_, graph_list[j])
    ELSE 0

\* fan_out keeping the first alternative only.
fan_out_first_alternative(s_out_, alternatives) ==
    list([k \in 1..Len(s_out_) |-> Append(s_out_[k], alternatives[1])])

\* Lines 102-106: every alternative (a character of the value) appended to
\* every string so far, the alternatives outermost.
fan_out(s_out_, alternatives) ==
    list([k \in 1..(Len(alternatives) * Len(s_out_)) |->
             Append(s_out_[((k - 1) % Len(s_out_)) + 1],
                    alternatives[((k - 1) \div Len(s_out_)) + 1])])

\* replace_unmatched consuming the character without emitting it.
replace_unmatched_dropping(s_in_, s_out_) ==
    [s_in |-> Tail(s_in_), s_out |-> s_out_, graph |-> <<Head(s_in_)>>, matched |-> FALSE]

\* Lines 108-113: no graph matches; the first character is emitted as it is.
replace_unmatched(s_in_, s_out_) ==
    [s_in |-> Tail(s_in_),
     s_out |-> list([k \in 1..Len(s_out_) |-> Append(s_out_[k], Head(s_in_))]),
     graph |-> <<Head(s_in_)>>,
     matched |-> FALSE]

replace_matched(s_in_, s_out_, replace_dict_, g) ==
    [s_in |-> SubSeq(s_in_, Len(replace_dict_[g][1]) + 1, Len(s_in_)),
     s_out |-> fan_out(s_out_, replace_dict_[g][2]),
     graph |-> replace_dict_[g][1],
     matched |-> TRUE]

\* One iteration of the while loop, s_in_ not empty.
replace_step(s_in_, s_out_, replace_dict_) ==
    LET g == first_graph(s_in_, dict_keys(replace_dict_))
    IN  IF g # 0 THEN replace_matched(s_in_, s_out_, replace_dict_, g)
        ELSE replace_unmatched(s_in_, s_out_)

RECURSIVE replace_loop(_, _, _)
replace_loop(s_in_, s_out_, replace_dict_) ==
    IF Len(s_in_) = 0 THEN s_out_
    ELSE LET r == replace_step(s_in_, s_out_, replace_dict_)
         IN  replace_loop(r.s_in, r.s_out, replace_dict_)

replace(string_, replace_dict_) == replace_loop(string_, << <<>> >>, replace_dict_)

\* replace() of a list: the results for its strings, one after the other.
RECURSIVE replace_list(_, _)
replace_list(strings, replace_dict_) ==
    IF strings = <<>> THEN <<>>
    ELSE replace(Head(strings), replace_dict_) \o replace_list(Tail(strings), replace_dict_)

(***************************************************************************)
(* Classification and canonical keys.                                      *)
(***************************************************************************)
is_greek_letter(char) ==
    LET alphabet == greek_monograph \o <<" ">> \o greek_accented
    IN  char_in(char, alphabet) /\ char # " "

\* is_latin_letter without the test against the space.
is_latin_letter_with_space(char) ==
    char_in(char, lish_monograph \o <<" ">> \o lat_accented)

is_latin_letter(char) ==
    LET alphabet == lish_monograph \o <<" ">> \o lat_accented
    IN  char_in(char, alphabet) /\ char # " "

is_greek(string_) ==
    LET s == replace(lower(string_), greek_accent_dictionary)[1]
    IN  \A i \in 1..Len(s) : is_greek_letter(s[i])

greek_to_uglish(string_) ==
    replace_list(replace(lower(string_), greek_accent_dictionary), g2u_dict)

lish_to_uglish(string_) ==
    replace_list(replace(lower(string_), lat_accent_dictionary), l2u_dict)

RECURSIVE tokenize_loop(_, _, _)
tokenize_loop(word_, graph_list, token_list) ==
    IF Len(word_) = 0 THEN token_list
    ELSE LET g == first_graph(word_, graph_list)
         IN  IF g # 0
             THEN tokenize_loop(SubSeq(word_, Len(graph_list[g]) + 1, Len(word_)),
                                graph_list, Append(token_list, graph_list[g]))
             ELSE tokenize_loop(Tail(word_), graph_list,
                                Append(token_list, <<Head(word_)>>))

\* tokenize_graphs taking every character for a graph.
tokenize_graphs_by_character(word_, graph_list) ==
    list([i \in 1..Len(word_) |-> <<word_[i]>>])

\* graph_list is list(dict.keys()) or graph_string.split(), as the caller has it.
tokenize_graphs(word_, graph_list) == tokenize_loop(word_, graph_list, <<>>)

count_graphs(word_, graph_list) == Len(tokenize_graphs(word_, graph_list))

\* The positions (from 0) of the accented characters.
find_accent(string_) ==
    LET hit(i) == char_in(string_[i], greek_accented) \/ char_in(string_[i], lat_accented)
        F[i \in 0..Len(string_)] ==
            IF i = 0 THEN <<>>
            ELSE IF hit(i) THEN Append(F[i - 1], i - 1) ELSE F[i - 1]
    IN  F[Len(string_)]

\* The graph lists of lines 284 and 288.
lish_graphs == split(lish_trigraph \o lish_digraph \o lish_monograph)
greek_graphs == split(greek_digraph \o greek_monograph)

\* list(g2u_dict.keys()) and list(l2u_dict.keys()), lines 307 and 311.
g2u_keys == dict_keys(g2u_dict)
l2u_keys == dict_keys(l2u_dict)

NoAccentPosition == 100

find_accent_graph_position(word_, graph_list) ==
    IF find_accent(word_) = <<>> THEN NoAccentPosition
    ELSE LET accent_pos == find_accent(word_)[1]
             w1 == SubSeq(word_, 1, accent_pos + 1)
             w2 == replace(w1, greek_accent_dictionary)[1]
             w3 == replace(w2, lat_accent_dictionary)[1]
         IN  count_graphs(w3, graph_list)

(***************************************************************************)
(* The state.                                                              *)
(*   pc            where the program is                                    *)
(*   uglish_dict   the canonical index: a function from the canonical keys *)
(*                 it holds to the list of Greek words filed under each    *)
(*                 (the program only subscripts it, so the order of its    *)
(*                 keys is not kept)                                       *)
(*   line_number   build_g_uglish_dict's counter of Greek lines            *)
(*   text, word, text_out   translate_text: the characters iterated so     *)
(*                 far, the word buffer, the output                        *)
(*   guessed       history: the calls of guess so far, [word, out]         *)
(*   lat_string, possibilities   sorted_possibilities' argument and list   *)
(*   retrieved     history: what find_possibilities returned               *)
(*   lang, string  the canonicalisation under way (greek_to_uglish or      *)
(*                 lish_to_uglish) and its argument                        *)
(*   stage         1: replace with the accent table, 2: with the graphs    *)
(*   queue, cur, s_in, s_out, result   replace: the strings of the list    *)
(*                 argument still to do, the string being done, the loop's *)
(*                 s_in and s_out, the list returned so far                *)
(*   token_list    history: the graphs consumed from cur                   *)
(*   prev          history: s_in and s_out before the last iteration, the  *)
(*                 graph it consumed                                       *)
(***************************************************************************)
VARIABLES pc, uglish_dict, line_number, text, word, text_out, guessed,
          lat_string, possibilities, retrieved,
          lang, string, stage, queue, cur, s_in, s_out, result, token_list, prev

buildVars == <<uglish_dict, line_number>>
textVars == <<text, word, text_out, guessed>>
rankVars == <<lat_string, possibilities, retrieved>>
replaceVars == <<lang, string, stage, queue, cur, s_in, s_out, result, token_list, prev>>
vars == <<pc, buildVars, textVars, rankVars, replaceVars>>

(***************************************************************************)
(* The index and the ranker.                                               *)
(***************************************************************************)
\* Lines 240-243: word appended to the bucket of each of its keys.
RECURSIVE file_word(_, _, _)
file_word(dict, uglish, word_) ==
    IF uglish = <<>> THEN dict
    ELSE LET uglish_word == Head(uglish)
             filed == IF uglish_word \in DOMAIN dict
                      THEN [dict EXCEPT ![uglish_word] = Append(@, word_)]
                      ELSE dict @@ (uglish_word :> <<word_>>)
         IN  file_word(filed, Tail(uglish), word_)

RECURSIVE lookup_all(_)
lookup_all(uglish) ==
    IF uglish = <<>> THEN <<>>
    ELSE (IF Head(uglish) \in DOMAIN uglish_dict THEN uglish_dict[Head(uglish)] ELSE <<>>)
         \o lookup_all(Tail(uglish))

find_possibilities(lat_string_) == lookup_all(lish_to_uglish(lat_string_))

\* sort_possibilities_by with equal metrics in reverse order.
sort_possibilities_by_unstable(possibilities_, metric_list) ==
    LET n == Len(possibilities_)
        before(j, i) == \/ metric_list[j] < metric_list[i]
                        \/ metric_list[j] = metric_list[i] /\ j > i
        at(k) == CHOOSE i \in 1..n : Cardinality({j \in 1..n : before(j, i)}) = k - 1
    IN  list([k \in 1..n |-> possibilities_[at(k)]])

\* sorted(enumerate(metric_list), key=...) is stable: equal metrics keep
\* their order.
sort_possibilities_by(possibilities_, metric_list) ==
    LET n == Len(possibilities_)
        before(j, i) == \/ metric_list[j] < metric_list[i]
                        \/ metric_list[j] = metric_list[i] /\ j < i
        at(k) == CHOOSE i \in 1..n : Cardinality({j \in 1..n : before(j, i)}) = k - 1
    IN  list([k \in 1..n |-> possibilities_[at(k)]])

sort_possibilities_by_accent(lat_string_, possibilities_) ==
    IF Len(find_accent(lat_string_)) = 0 THEN possibilities_
    ELSE LET lat_accent_position ==
                 find_accent_graph_position(lat_string_, lish_graphs)
             greek_accent_position_differences ==
                 [j \in 1..Len(possibilities_) |->
                     abs(find_accent_graph_position(possibilities_[j], greek_graphs)
                         - lat_accent_position)]
         IN  sort_possibilities_by(possibilities_, greek_accent_position_differences)

digraphs_to_monographs == split(<<"c", "h", " ", "t", "h", " ", "p", "s">>)

sort_possibilities_by_length(lat_string_, possibilities_) ==
    LET F[d \in 0..Len(digraphs_to_monographs)] ==
            IF d = 0 THEN Len(lat_string_)
            ELSE F[d - 1] - count(lower(lat_string_), digraphs_to_monographs[d])
        lat_len == F[Len(digraphs_to_monographs)]
        greek_length_differences ==
            [j \in 1..Len(possibilities_) |-> abs(Len(possibilities_[j]) - lat_len)]
    IN  sort_possibilities_by(possibilities_, greek_length_differences)

BaseInverseProbability == 100

\* Lines 306-312: the tokens of the Latin word and of every possibility.
tokenized_lat_of(lat_string_) ==
    tokenize_graphs(replace(lower(lat_string_), lat_accent_dictionary)[1],
                    l2u_keys)

tokenized_possibility_of(possibility) ==
    tokenize_graphs(replace(lower(possibility), greek_accent_dictionary)[1],
                    g2u_keys)

\* Line 322 subscripts tokenized_possibility[i] for every tiebreaker token i
\* (from 0) and every possibility: an i at or past its length raises IndexError.
tiebreakers_raise(lat_string_, possibilities_) ==
    LET tokenized_lat == tokenized_lat_of(lat_string_)
    IN  \E i \in 1..Len(tokenized_lat) :
           /\ dict_has(tiebreaker_dict, tokenized_lat[i])
           /\ \E j \in 1..Len(possibilities_) :
                 i > Len(tokenized_possibility_of(possibilities_[j]))

\* What the function returns when line 322 does not raise.
sort_possibilities_by_tiebreakers(lat_string_, possibilities_) ==
    LET tokenized_lat == tokenized_lat_of(lat_string_)
        hits(j) ==
            LET tokenized_possibility == tokenized_possibility_of(possibilities_[j])
            IN  {i \in 1..Len(tokenized_lat) :
                    /\ dict_has(tiebreaker_dict, tokenized_lat[i])
                    /\ tokenized_possibility[i] = dict_get(tiebreaker_dict, tokenized_lat[i])}
        inverse_probabilities ==
            [j \in 1..Len(possibilities_) |-> BaseInverseProbability - Cardinality(hits(j))]
    IN  sort_possibilities_by(possibilities_, inverse_probabilities)

sorted_possibilities_raise(lat_string_) ==
    tiebreakers_raise(lat_string_,
        sort_possibilities_by_accent(lat_string_,
            sort_possibilities_by_length(lat_string_, find_possibilities(lat_string_))))

sorted_possibilities(lat_string_) ==
    sort_possibilities_by_tiebreakers(lat_string_,
        sort_possibilities_by_accent(lat_string_,
            sort_possibilities_by_length(lat_string_, find_possibilities(lat_string_))))

\* guess falling back on the lowercased word.
guess_lowered_fallback(word_) ==
    LET capitalize == isupper(word_[1])
        guess_list == sorted_possibilities(word_)
        translated_word == IF guess_list # <<>> THEN guess_list[1] ELSE lower(word_)
    IN  IF capitalize
        THEN upper(translated_word[1]) \o Tail(translated_word)
        ELSE translated_word

\* translate_text's inner function, for a word whose ranking does not raise.
guess(word_) ==
    LET capitalize == isupper(word_[1])
        guess_list == sorted_possibilities(word_)
        translated_word == IF guess_list # <<>> THEN guess_list[1] ELSE word_
    IN  IF capitalize
        THEN upper(translated_word[1]) \o Tail(translated_word)
        ELSE translated_word

(***************************************************************************)
(* Bounds and input domains.                                               *)
(***************************************************************************)
\* Greek lines read by build_g_uglish_dict.
MaxLines == 3
\* Characters of the text given to translate_text.
MaxTextLen == 3
\* Characters of the word given to greek_to_uglish / lish_to_uglish.
MaxStrLen == 3
\* Candidates handed to sort_possibilities_by_tiebreakers on its own.
MaxCands == 2

\* Lines of the word list behind the index that translate_text runs on:
\* eta "the" and eta with tonos "or" (both of key i), and a Latin line
\* (skipped).
TextPool == { <<"eta">>, <<"eta_acc">>, <<"i">> }

\* Characters of the texts: a Latin letter, a capital accented Latin letter,
\* a digit of the Greeklish alphabet, another digit, a comma and a space.
TextChars == {"i", "I_ACUTE", "3", "1", ",", " "}

\* Lines of the word list behind the index the ranker runs on: homophones of
\* key i with different lengths, accents and graphs, a word of key x, two
\* words of key ii, a word with two accents and a Latin line (both skipped).
RankPool ==
    { <<"eta">>, <<"eta_acc">>, <<"upsilon">>, <<"omicron", "iota">>, <<"chi">>,
      <<"eta", "upsilon_acc">>, <<"iota_acc", "eta">>,
      <<"eta_acc", "upsilon_acc">>, <<"i">> }

\* Latin words ranked.
LatWords ==
    { <<"i">>, <<"i_acute">>, <<"u">>, <<"u_acute">>, <<"o", "i">>, <<"h">>,
      <<"I_ACUTE">>, <<"i", "u">>, <<"i_acute", "u">>, <<"i", "u_acute">>, <<"k">> }

\* Candidates handed to the tiebreaker stage on its own.
TiePool == { <<"eta">>, <<"upsilon">>, <<"eta", "upsilon">>, <<"kappa", "alpha", "iota">> }

\* Characters of the words canonicalised.
GreekChars == {"alpha", "upsilon", "gamma", "kappa", "alpha_acc", "GAMMA"}
LatinChars == {"n", "c", "h", "g", "a_acute", "C"}

\* The sequences over S of at most n elements.
SeqsUpTo(S, n) == UNION {[1..k -> S] : k \in 0..n}

Range(seq) == {seq[i] : i \in 1..Len(seq)}

(***************************************************************************)
(* build_g_uglish_dict, one line of the word list at a time, and the load  *)
(* of the index it wrote.                                                  *)
(***************************************************************************)
filed(word_) == \E key \in DOMAIN uglish_dict : word_ \in Range(uglish_dict[key])

\* Lines 228-243 for a line whose first token is word_ (a word list names a
\* word once).
BuildLine(word_) ==
    /\ pc = "build"
    /\ line_number <= MaxLines
    /\ ~ filed(word_)
    /\ IF ~ is_greek(word_)
       THEN UNCHANGED buildVars
       ELSE /\ line_number' = line_number + 1
            /\ IF Len(find_accent(word_)) > 1
               THEN UNCHANGED uglish_dict
               ELSE uglish_dict' = file_word(uglish_dict, greek_to_uglish(word_), word_)
    /\ UNCHANGED <<pc, textVars, rankVars, replaceVars>>

(***************************************************************************)
(* translate_text, one character of the text at a time.                    *)
(***************************************************************************)
\* Line 255, then a call of translate_text: lines 358-359.
LoadForText ==
    /\ pc = "build"
    /\ pc' = "scan"
    /\ text' = <<>>
    /\ word' = <<>>
    /\ text_out' = <<>>
    /\ UNCHANGED <<buildVars, guessed, rankVars, replaceVars>>

\* Line 361.
is_word_char(char) == is_latin_letter(lower(<<char>>)[1])

\* flush_out without the character that ended the word.
flush_out_without_char(text_out_, translated_word, char) == text_out_ \o translated_word

\* Line 363, guess(word) having returned translated_word.
flush_out(text_out_, translated_word, char) == text_out_ \o translated_word \o <<char>>

\* Lines 367-368.
LatinChar(char) ==
    /\ pc = "scan"
    /\ Len(text) < MaxTextLen
    /\ is_word_char(char)
    /\ text' = Append(text, char)
    /\ word' = Append(word, char)
    /\ UNCHANGED <<pc, text_out, guessed, buildVars, rankVars, replaceVars>>

\* Lines 361-366.
OtherChar(char) ==
    /\ pc = "scan"
    /\ Len(text) < MaxTextLen
    /\ ~ is_word_char(char)
    /\ text' = Append(text, char)
    /\ IF word # <<>>
       THEN IF sorted_possibilities_raise(word)
            THEN pc' = "raised" /\ UNCHANGED <<word, text_out, guessed>>
            ELSE \E translated_word \in {guess(word)} :
                     /\ text_out' = flush_out(text_out, translated_word, char)
                     /\ guessed' = Append(guessed, [word |-> word, out |-> translated_word])
                     /\ word' = <<>>
                     /\ UNCHANGED pc
       ELSE /\ text_out' = Append(text_out, char)
            /\ UNCHANGED <<pc, word, guessed>>
    /\ UNCHANGED <<buildVars, rankVars, replaceVars>>

\* Lines 369-371: the end of the text.
EndOfText ==
    /\ pc = "scan"
    /\ IF word # <<>>
       THEN IF sorted_possibilities_raise(word)
            THEN pc' = "raised" /\ UNCHANGED <<text_out, guessed>>
            ELSE \E translated_word \in {guess(word)} :
                     /\ text_out' = text_out \o translated_word
                     /\ guessed' = Append(guessed, [word |-> word, out |-> translated_word])
                     /\ pc' = "done"
       ELSE pc' = "done" /\ UNCHANGED <<text_out, guessed>>
    /\ UNCHANGED <<text, word, buildVars, rankVars, replaceVars>>

(***************************************************************************)
(* sorted_possibilities, one stage at a time.                              *)
(***************************************************************************)
\* Line 255, then a call of sorted_possibilities.
LoadForWord(lat_string_) ==
    /\ pc = "build"
    /\ pc' = "find"
    /\ lat_string' = lat_string_
    /\ UNCHANGED <<possibilities, retrieved, buildVars, textVars, replaceVars>>

\* Line 329.
FindPossibilities ==
    /\ pc = "find"
    /\ possibilities' = find_possibilities(lat_string)
    /\ retrieved' = find_possibilities(lat_string)
    /\ pc' = "length"
    /\ UNCHANGED <<lat_string, buildVars, textVars, replaceVars>>

\* Line 331.
SortLength ==
    /\ pc = "length"
    /\ possibilities' = sort_possibilities_by_length(lat_string, possibilities)
    /\ pc' = "accent"
    /\ UNCHANGED <<lat_string, retrieved, buildVars, textVars, replaceVars>>

\* Line 333.
SortAccent ==
    /\ pc = "accent"
    /\ possibilities' = sort_possibilities_by_accent(lat_string, possibilities)
    /\ pc' = "tiebreakers"
    /\ UNCHANGED <<lat_string, retrieved, buildVars, textVars, replaceVars>>

\* Lines 335-337.
SortTiebreakers ==
    /\ pc = "tiebreakers"
    /\ IF tiebreakers_raise(lat_string, possibilities)
       THEN pc' = "raised" /\ UNCHANGED possibilities
       ELSE /\ possibilities' = sort_possibilities_by_tiebreakers(lat_string, possibilities)
            /\ pc' = "sorted"
    /\ UNCHANGED <<lat_string, retrieved, buildVars, textVars, replaceVars>>

(***************************************************************************)
(* greek_to_uglish and lish_to_uglish, one iteration of replace's loop at  *)
(* a time.                                                                 *)
(***************************************************************************)
accent_table == IF lang = "greek" THEN greek_accent_dictionary ELSE lat_accent_dictionary
graph_table == IF lang = "greek" THEN g2u_dict ELSE l2u_dict
replace_dict == IF stage = 1 THEN accent_table ELSE graph_table

NoStep == [s_in |-> <<>>, s_out |-> <<>>, graph |-> <<>>, matched |-> FALSE, stepped |-> FALSE]

\* Lines 174-175 / 258-259: lower(), then replace() entered with the str.
Lower ==
    /\ pc = "lower"
    /\ pc' = "replace"
    /\ stage' = 1
    /\ queue' = <<>>
    /\ cur' = lower(string)
    /\ s_in' = lower(string)
    /\ s_out' = << <<>> >>
    /\ result' = <<>>
    /\ token_list' = <<>>
    /\ prev' = NoStep
    /\ UNCHANGED <<lang, string, buildVars, textVars, rankVars>>

\* Lines 95-113: one iteration of the while loop.
ReplaceStep ==
    LET r == replace_step(s_in, s_out, replace_dict)
    IN  /\ s_in' = r.s_in
        /\ s_out' = r.s_out
        /\ token_list' = Append(token_list, r.graph)
        /\ prev' = [s_in |-> s_in, s_out |-> s_out, graph |-> r.graph,
                    matched |-> r.matched, stepped |-> TRUE]
        /\ UNCHANGED <<pc, lang, string, stage, queue, cur, result,
                       buildVars, textVars, rankVars>>

\* Lines 97-107: a graph of the table is a prefix of s_in.
ReplaceMatch ==
    /\ pc = "replace"
    /\ Len(s_in) > 0
    /\ first_graph(s_in, dict_keys(replace_dict)) # 0
    /\ ReplaceStep

\* Lines 108-113: none is.
ReplaceNoMatch ==
    /\ pc = "replace"
    /\ Len(s_in) > 0
    /\ first_graph(s_in, dict_keys(replace_dict)) = 0
    /\ ReplaceStep

\* Line 114, s_in exhausted: the call for cur returns s_out.  The call for a
\* list goes on with its next string (lines 90-91); the call with the accent
\* table is followed by the call with the graph table on the list it
\* returned (lines 176 / 260); that one returns the canonical keys.
ReplaceReturn ==
    /\ pc = "replace"
    /\ Len(s_in) = 0
    /\ LET done == result \o s_out
       IN  IF queue # <<>>
           THEN /\ result' = done
                /\ cur' = Head(queue)
                /\ s_in' = Head(queue)
                /\ queue' = Tail(queue)
                /\ s_out' = << <<>> >>
                /\ token_list' = <<>>
                /\ prev' = NoStep
                /\ UNCHANGED <<pc, stage>>
           ELSE IF stage = 1
           THEN /\ stage' = 2
                /\ result' = <<>>
                /\ cur' = Head(done)
                /\ s_in' = Head(done)
                /\ queue' = Tail(done)
                /\ s_out' = << <<>> >>
                /\ token_list' = <<>>
                /\ prev' = NoStep
                /\ UNCHANGED pc
           ELSE /\ result' = done
                /\ pc' = "returned"
                /\ UNCHANGED <<stage, queue, cur, s_in, s_out, token_list, prev>>
    /\ UNCHANGED <<lang, string, buildVars, textVars, rankVars>>

(***************************************************************************)
(* The specifications.                                                     *)
(***************************************************************************)
Idle ==
    /\ uglish_dict = <<>>
    /\ line_number = 1
    /\ text = <<>>
    /\ word = <<>>
    /\ text_out = <<>>
    /\ guessed = <<>>
    /\ lat_string = <<>>
    /\ possibilities = <<>>
    /\ retrieved = <<>>
    /\ lang = "greek"
    /\ string = <<>>
    /\ stage = 1
    /\ queue = <<>>
    /\ cur = <<>>
    /\ s_in = <<>>
    /\ s_out = <<>>
    /\ result = <<>>
    /\ token_list = <<>>
    /\ prev = NoStep

\* The index is built from a word list, loaded, and a text is translated.
Init == pc = "build" /\ Idle

Next ==
    \/ \E w \in TextPool : BuildLine(w)
    \/ LoadForText
    \/ \E c \in TextChars : LatinChar(c)
    \/ \E c \in TextChars : OtherChar(c)
    \/ EndOfText

Spec == Init /\ [][Next]_vars

\* The index is built from a word list, loaded, and a Latin word is ranked.
NextRank ==
    \/ \E w \in RankPool : BuildLine(w)
    \/ \E w \in LatWords : LoadForWord(w)
    \/ FindPossibilities
    \/ SortLength
    \/ SortAccent
    \/ SortTiebreakers

SpecRank == Init /\ [][NextRank]_vars

\* The tiebreaker stage on a Latin word and a list of candidates of any
\* number of tokens.
InitTie ==
    /\ pc = "tiebreakers"
    /\ uglish_dict = <<>>
    /\ line_number = 1
    /\ text = <<>> /\ word = <<>> /\ text_out = <<>> /\ guessed = <<>>
    /\ lat_string \in LatWords
    /\ possibilities \in SeqsUpTo(TiePool, MaxCands)
    /\ retrieved = possibilities
    /\ lang = "greek" /\ string = <<>> /\ stage = 1 /\ queue = <<>> /\ cur = <<>>
    /\ s_in = <<>> /\ s_out = <<>> /\ result = <<>> /\ token_list = <<>>
    /\ prev = NoStep

SpecTie == InitTie /\ [][SortTiebreakers]_vars

\* A Greek word is canonicalised by greek_to_uglish, or a Latin one by
\* lish_to_uglish.
InitCanon ==
    /\ pc = "lower"
    /\ uglish_dict = <<>>
    /\ line_number = 1
    /\ text = <<>> /\ word = <<>> /\ text_out = <<>> /\ guessed = <<>>
    /\ lat_string = <<>> /\ possibilities = <<>> /\ retrieved = <<>>
    /\ lang \in {"greek", "latin"}
    /\ string \in SeqsUpTo(IF lang = "greek" THEN GreekChars ELSE LatinChars, MaxStrLen)
    /\ stage = 1 /\ queue = <<>> /\ cur = <<>>
    /\ s_in = <<>> /\ s_out = <<>> /\ result = <<>> /\ token_list = <<>>
    /\ prev = NoStep

NextCanon ==
    \/ Lower
    \/ ReplaceMatch
    \/ ReplaceNoMatch
    \/ ReplaceReturn

SpecCanon == InitCanon /\ [][NextCanon]_vars

(***************************************************************************)
(* Properties.                                                             *)
(***************************************************************************)
Last(seq) == seq[Len(seq)]

guessed_words == [k \in 1..Len(guessed) |-> guessed[k].word]

\* The longest suffix of t made of word characters.
trailing_run(t) ==
    LET n == Len(t)
        j == CHOOSE j \in 0..n :
                /\ \A k \in (j + 1)..n : is_word_char(t[k])
                /\ (j = 0 \/ ~ is_word_char(t[j]))
    IN  SubSeq(t, j + 1, n)

without_trailing_run(t) == SubSeq(t, 1, Len(t) - Len(trailing_run(t)))

\* The maximal run of word characters that ends at position i of t.
run_ending_at(t, i) == trailing_run(SubSeq(t, 1, i))

ends_run(t, i) == is_word_char(t[i]) /\ (i = Len(t) \/ ~ is_word_char(t[i + 1]))

\* The maximal runs of word characters of t, in order.
latin_runs(t) ==
    LET F[i \in 0..Len(t)] ==
            IF i = 0 THEN <<>>
            ELSE IF ends_run(t, i) THEN Append(F[i - 1], run_ending_at(t, i)) ELSE F[i - 1]
    IN  F[Len(t)]

\* t with every maximal run of word characters replaced by guess of the run
\* and every other character kept.
runs_translated(t) ==
    LET F[i \in 0..Len(t)] ==
            IF i = 0 THEN <<>>
            ELSE IF ~ is_word_char(t[i]) THEN Append(F[i - 1], t[i])
            ELSE IF ends_run(t, i) THEN F[i - 1] \o guess(run_ending_at(t, i))
            ELSE F[i - 1]
    IN  F[Len(t)]

\* C1: translate_text copies every character that is not Latin-classified to
\* the output unchanged, in order and once, and replaces every maximal run of
\* Latin-classified characters, a trailing one included, by one result of
\* guess(run): the output is the text with its maximal runs translated, guess
\* was called once for each maximal run, in order, and while the text is
\* scanned the buffer is the run under way and the output that of the text
\* before it.
C1_RunsReplaced ==
    /\ pc = "done" =>
          /\ text_out = runs_translated(text)
          /\ guessed_words = latin_runs(text)
    /\ pc = "scan" =>
          /\ word = trailing_run(text)
          /\ text_out = runs_translated(without_trailing_run(text))
          /\ guessed_words = latin_runs(without_trailing_run(text))

C1_Witness ==
    /\ pc = "done"
    /\ text = <<"i", ",", "I_ACUTE">>
    /\ guessed_words = << <<"i">>, <<"I_ACUTE">> >>
    /\ text_out = <<"eta", ",", "ETA">>

all_word_chars(t) == \A i \in 1..Len(t) : is_word_char(t[i])

\* C2: a Latin word, of any capitalization, whose canonical keys have no
\* candidates in the index is returned unchanged and nothing is raised:
\* every call of guess with such a word returned the word, and a text that
\* is one such word is translated into itself.
C2_Fallback ==
    /\ pc # "raised"
    /\ \A k \in 1..Len(guessed) :
          find_possibilities(guessed[k].word) = <<>> => guessed[k].out = guessed[k].word
    /\ (pc = "done" /\ text # <<>> /\ all_word_chars(text)
            /\ find_possibilities(text) = <<>>) => text_out = text

C2_Witness ==
    /\ pc = "done"
    /\ uglish_dict # <<>>
    /\ text = <<"I_ACUTE", "i">>
    /\ find_possibilities(text) = <<>>
    /\ text_out = text

\* C3: the word emitted for a buffer is the top-ranked candidate, with its
\* first character uppercased and the rest as it is when the buffer starts
\* with an uppercase character, unmodified otherwise; and the ranking does
\* not depend on the case of the word: it is that of the lowercased word.
C3_CaseIndependent ==
    \A k \in 1..Len(guessed) :
        LET w == guessed[k].word
            ranked == sorted_possibilities(w)
        IN  /\ ranked # <<>> =>
                  guessed[k].out = IF isupper(w[1])
                                   THEN upper(ranked[1][1]) \o Tail(ranked[1])
                                   ELSE ranked[1]
            /\ ranked = sorted_possibilities(lower(w))

Digits == {"0", "1", "2", "3", "4", "5", "6", "7", "8", "9"}
Punctuation == {",", ".", ";", ":", "?", "!", "-", "(", ")"}
Whitespace == {" "}
GreeklishDigits == {"3", "4", "8", "9"}

\* The characters of the set others are segment boundaries of the text read
\* so far: none is Latin- or Greek-classified, none is in the word buffer or
\* in a word given to guess, and one just read has flushed the buffer and
\* ends the output.
boundaries(others) ==
    /\ \A i \in 1..Len(text) : text[i] \in others =>
          /\ ~ is_latin_letter(text[i])
          /\ ~ is_greek_letter(text[i])
          /\ ~ is_word_char(text[i])
    /\ \A i \in 1..Len(word) : word[i] \notin others
    /\ \A k \in 1..Len(guessed) : \A i \in 1..Len(guessed[k].word) :
          guessed[k].word[i] \notin others
    /\ (pc = "scan" /\ text # <<>> /\ Last(text) \in others) =>
          /\ word = <<>>
          /\ text_out # <<>>
          /\ Last(text_out) = Last(text)

\* C8 as claimed: every digit, punctuation mark and whitespace character
\* classifies as Other and is a segment boundary of translate_text.
C8_EveryDigitIsBoundary == boundaries(Digits \cup Punctuation \cup Whitespace)

\* C8, amended: every punctuation mark, every whitespace character and every
\* digit other than 3, 4, 8 and 9 classifies as Other and is a segment
\* boundary of translate_text; the digits 3, 4, 8 and 9 are letters of the
\* Greeklish alphabet, classify as Latin and are accumulated into the buffer.
C8_OtherIsBoundary ==
    /\ \A c \in (Digits \cup Punctuation \cup Whitespace) \ GreeklishDigits :
          ~ is_latin_letter(c) /\ ~ is_greek_letter(c)
    /\ \A c \in GreeklishDigits : is_latin_letter(c)
    /\ boundaries((Digits \cup Punctuation \cup Whitespace) \ GreeklishDigits)
    /\ (pc = "scan" /\ text # <<>> /\ Last(text) \in GreeklishDigits) =>
          word # <<>> /\ Last(word) = Last(text)

C8_Witness ==
    /\ pc = "scan"
    /\ text = <<"3", "i", "1">>
    /\ word = <<>>
    /\ guessed_words = << <<"3", "i">> >>
    /\ text_out = <<"3", "i", "1">>

(***************************************************************************)
(* The ranking as one ordering.                                            *)
(***************************************************************************)
has_accent(lat) == find_accent(lat) # <<>>

length_difference(lat, candidate) ==
    LET low == lower(lat)
        adjusted == Len(lat) - count(low, <<"c", "h">>) - count(low, <<"t", "h">>)
                             - count(low, <<"p", "s">>)
    IN  abs(Len(candidate) - adjusted)

accent_difference(lat, candidate) ==
    abs(find_accent_graph_position(candidate, greek_graphs)
        - find_accent_graph_position(lat, lish_graphs))

\* The baseline less the positions where the Latin graph is a tiebreaker and the
\* candidate has the expected Greek graph; a position the candidate does not
\* have is no match.
tiebreaker_score(lat, candidate) ==
    LET tl == tokenized_lat_of(lat)
        tc == tokenized_possibility_of(candidate)
    IN  BaseInverseProbability - Cardinality({i \in 1..Len(tl) :
                              /\ dict_has(tiebreaker_dict, tl[i])
                              /\ i <= Len(tc)
                              /\ tc[i] = dict_get(tiebreaker_dict, tl[i])})

\* The list ordered by the keys (a sequence of integers for each position),
\* compared lexicographically, the position in the list last.
lex_before(ka, kb, a, b) ==
    \/ \E n \in 1..Len(ka) : ka[n] < kb[n] /\ \A m \in 1..(n - 1) : ka[m] = kb[m]
    \/ ka = kb /\ a < b

ordered_by(candidates, keys) ==
    LET n == Len(candidates)
        at(k) == CHOOSE i \in 1..n :
                    Cardinality({j \in 1..n : lex_before(keys[j], keys[i], j, i)}) = k - 1
    IN  [k \in 1..n |-> candidates[at(k)]]

by_length(lat, candidates) ==
    ordered_by(candidates,
               [j \in 1..Len(candidates) |-> <<length_difference(lat, candidates[j])>>])

by_tiebreakers(lat, candidates) ==
    ordered_by(candidates,
               [j \in 1..Len(candidates) |-> <<tiebreaker_score(lat, candidates[j])>>])

by_all(lat, candidates) ==
    ordered_by(candidates,
               [j \in 1..Len(candidates) |->
                   IF has_accent(lat)
                   THEN <<tiebreaker_score(lat, candidates[j]),
                          accent_difference(lat, candidates[j]),
                          length_difference(lat, candidates[j])>>
                   ELSE <<tiebreaker_score(lat, candidates[j]),
                          length_difference(lat, candidates[j])>>])

occurrences(seq, x) == Cardinality({i \in 1..Len(seq) : seq[i] = x})

permutation(a, b) ==
    /\ Len(a) = Len(b)
    /\ \A i \in 1..Len(a) : occurrences(a, a[i]) = occurrences(b, a[i])

stripped_greek(g) == replace(lower(g), greek_accent_dictionary)[1]
stripped_lat(w) == replace(lower(w), lat_accent_dictionary)[1]

filed_words == UNION {Range(uglish_dict[key]) : key \in DOMAIN uglish_dict}

\* C10: a string returned by replace has as many characters as
\* tokenize_graphs finds graphs in the same input with the same table, so a
\* Greek word filed by build_g_uglish_dict under a key of a Latin word has
\* as many graphs as the Latin word, and the tiebreaker stage never indexes
\* past the graphs of a candidate retrieved from the index.
C10_GraphCounts ==
    /\ pc # "raised"
    /\ \A g \in filed_words :
          /\ Len(stripped_greek(g)) = count_graphs(lower(g), dict_keys(greek_accent_dictionary))
          /\ \A k \in Range(greek_to_uglish(g)) :
                Len(k) = count_graphs(stripped_greek(g), g2u_keys)
    /\ pc # "build" =>
          /\ Len(stripped_lat(lat_string))
                = count_graphs(lower(lat_string), dict_keys(lat_accent_dictionary))
          /\ \A k \in Range(lish_to_uglish(lat_string)) :
                Len(k) = count_graphs(stripped_lat(lat_string), l2u_keys)
          /\ \A g \in Range(find_possibilities(lat_string)) :
                count_graphs(stripped_greek(g), g2u_keys)
                   = count_graphs(stripped_lat(lat_string), l2u_keys)
          /\ ~ tiebreakers_raise(lat_string, possibilities)

C10_Witness ==
    /\ pc = "sorted"
    /\ lat_string = <<"o", "i">>
    /\ retrieved = << <<"eta">>, <<"omicron", "iota">> >>
    /\ possibilities = << <<"omicron", "iota">>, <<"eta">> >>

\* C7: in the tiebreaker stage a position at or past a candidate's number of
\* graphs is not indexed: it is no match for that candidate, and
\* sort_possibilities_by_tiebreakers returns, the list ordered by score,
\* without raising.
C7_NoIndexError ==
    /\ pc # "raised"
    /\ pc = "sorted" => possibilities = by_tiebreakers(lat_string, retrieved)

(***************************************************************************)
(* Canonicalisation.                                                       *)
(***************************************************************************)
\* C5 as claimed: every canonical key of a Greek word is left as it is by
\* greek_to_uglish.
C5_Idempotent ==
    (pc = "returned" /\ lang = "greek" /\ is_greek(string)) =>
        \A k \in Range(result) : greek_to_uglish(k) = <<k>>

no_capital(k) == \A i \in 1..Len(k) : ~ isupper(k[i])

\* C5, amended: every canonical key of a Greek word that holds none of the
\* capital canonical symbols (A, E, the Greek capital epsilon, G, H, V) is
\* left as it is by greek_to_uglish; the lowercasing step changes a key that
\* holds one.
C5_IdempotentWithoutCapitals ==
    (pc = "returned" /\ lang = "greek" /\ is_greek(string)) =>
        \A k \in Range(result) :
            IF no_capital(k) THEN greek_to_uglish(k) = <<k>>
            ELSE greek_to_uglish(k) # <<k>>

C5_Witness ==
    /\ pc = "returned"
    /\ lang = "greek"
    /\ string = <<"kappa", "alpha_acc", "gamma">>
    /\ result = << <<"k", "a", "g">> >>

\* C6: the graph replace consumes at a cursor position, the first entry of
\* the table that is a prefix of the rest of the input, is also the longest
\* graph of the table that is one; when no graph is a prefix exactly one
\* character is consumed and emitted unchanged; tokenize_graphs consumes the
\* same graphs; the empty input gives one output, the empty string.
C6_FirstIsLongest ==
    LET keys == dict_keys(replace_dict)
        matches == {i \in 1..Len(keys) : startswith(prev.s_in, keys[i])}
    IN  /\ (prev.stepped /\ prev.matched) =>
              /\ matches # {}
              /\ prev.graph = keys[CHOOSE i \in matches : \A j \in matches : i <= j]
              /\ \A i \in matches : Len(keys[i]) <= Len(prev.graph)
              /\ s_in = SubSeq(prev.s_in, Len(prev.graph) + 1, Len(prev.s_in))
        /\ (prev.stepped /\ ~ prev.matched) =>
              /\ matches = {}
              /\ s_in = Tail(prev.s_in)
              /\ Len(s_out) = Len(prev.s_out)
              /\ \A k \in 1..Len(s_out) : s_out[k] = Append(prev.s_out[k], Head(prev.s_in))
        /\ (pc = "replace" /\ Len(s_in) = 0) => token_list = tokenize_graphs(cur, keys)
        /\ (pc = "replace" /\ cur = <<>>) => s_out = << <<>> >>

C6_Witness ==
    /\ pc = "replace"
    /\ stage = 2
    /\ lang = "latin"
    /\ prev.stepped /\ prev.matched
    /\ prev.s_in = <<"n", "c", "h">>
    /\ prev.graph = <<"n", "c", "h">>
    /\ s_in = <<>>

\* C9 as claimed: every graph consumed has one alternative, and one
\* canonical key is returned.
C9_SingleAlternative ==
    /\ (prev.stepped /\ prev.matched) => Len(s_out) = Len(prev.s_out)
    /\ pc = "returned" => Len(result) = 1

TwoAlternatives == { <<"b">>, <<"h">>, <<"x">>, <<"m", "b">> }

alternatives_of(graph) == IF graph \in TwoAlternatives THEN 2 ELSE 1

RECURSIVE keys_expected(_)
keys_expected(tokens) ==
    IF tokens = <<>> THEN 1
    ELSE alternatives_of(Head(tokens)) * keys_expected(Tail(tokens))

single_alternative(dict) == \A i \in 1..Len(dict) : Len(dict[i][2]) = 1

\* C9, amended: the accent tables and the Greek-to-canonical table have one
\* alternative for every graph, and so has the Latin-to-canonical table for
\* every graph but b, h, x and mb, which have two each; greek_to_uglish
\* returns one canonical key, and lish_to_uglish returns as many as the
\* product of the alternatives of the word's graphs: one key only for a word
\* with none of the four graphs.
C9_AlternativesOfFourGraphs ==
    /\ single_alternative(greek_accent_dictionary)
    /\ single_alternative(lat_accent_dictionary)
    /\ single_alternative(g2u_dict)
    /\ \A i \in 1..Len(l2u_dict) : Len(l2u_dict[i][2]) = alternatives_of(l2u_dict[i][1])
    /\ (prev.stepped /\ prev.matched) =>
          Len(s_out) = Len(prev.s_out)
                         * (IF lang = "latin" /\ stage = 2 THEN alternatives_of(prev.graph) ELSE 1)
    /\ (pc = "returned" /\ lang = "greek") => Len(result) = 1
    /\ (pc = "returned" /\ lang = "latin") =>
          Len(result) = keys_expected(tokenize_graphs(stripped_lat(string), l2u_keys))

C9_Witness ==
    /\ pc = "returned"
    /\ lang = "latin"
    /\ string = <<"h", "a_acute", "h">>
    /\ result = << <<"x", "a", "x">>, <<"i", "a", "x">>, <<"x", "a", "i">>, <<"i", "a", "i">> >>
====
